---------------------------- MODULE Spec2Model ----------------------------
(***************************************************************************)
(* Model of oobabot's streaming client (src/src/oobabot/ooba_client.py):   *)
(* the MessageSplitter hierarchy (RegexSplitter, SentenceSplitter), the    *)
(* raw token generator request_by_token and the consumption modes built    *)
(* on it (request_by_message, request_as_grouped_tokens).                  *)
(*                                                                         *)
(* Text is a sequence of one-character strings; the Python "" is <<>>.     *)
(* Offsets are Python offsets (0-based, half-open ranges).                 *)
(* Generators are modelled at their suspension points: one action runs a   *)
(* generator from one yield (or its start) to the next yield (or its end). *)
(***************************************************************************)
EXTENDS Integers, Sequences, FiniteSets

VARIABLES
    mode,                   \* which request_* method the caller invoked
    script,                 \* what the transport delivers: "free" or a fixed example
    message_regex,          \* OobaClient.message_regex (NoRegex when falsy)
    interval,               \* request_as_grouped_tokens' interval argument
    total_response_tokens,  \* OobaClient.total_response_tokens
    src_pc,                 \* where request_by_token is suspended
    token,                  \* the item request_by_token last yielded
    cpc,                    \* where the consuming generator is suspended
    full_response,          \* MessageSplitter.full_response
    printed_idx,            \* MessageSplitter.printed_idx
    match_end,              \* RegexSplitter.partition: match.end() of the pending match
    segments,               \* SentenceSplitter.partition: the local list `segments`
    seg_i,                  \* SentenceSplitter.partition: position in segments[:-1]
    tokens,                 \* request_as_grouped_tokens: the local buffer `tokens`
    last_response,          \* request_as_grouped_tokens: the local `last_response`
    clock,                  \* the last value time.perf_counter() returned
    out,                    \* history: the items handed to the caller, in order
    emitted,                \* history: each unit of the splitter with its offsets
    dropped,                \* history: offsets the strategy consumed without emitting
    streamed,               \* history: concatenation of the text deltas of the events
    idx0,                   \* history: printed_idx when the current next() call began
    calls,                  \* history: number of next() calls begun
    events_seen,            \* history: events this call's client.events() delivered
    collected,              \* request_as_string: the list its comprehension builds
    other                   \* the locals of a second request_* call, while it is
                            \* suspended (<<>> when there is none)

vars == <<mode, script, message_regex, interval, total_response_tokens, src_pc,
          token, cpc, full_response, printed_idx, match_end, segments, seg_i,
          tokens, last_response, clock, out, emitted, dropped, streamed, idx0,
          calls, events_seen, collected, other>>

-----------------------------------------------------------------------------
(* Bounds of the model. *)

\* total length of the text deltas of a free transport stream
MaxLen == 4
\* length of one text delta of a free transport stream
MaxTokLen == 2
\* number of transport events of a free stream
MaxEvents == 3
\* largest clock value of a free stream
MaxTime == 4
\* interval argument used with a free stream
FreeInterval == 2
\* units after which a partition loop is no longer resumed
MaxUnits == 5
\* next() calls a caller that drives a splitter itself makes
MaxCalls == 3
\* total length of the tokens such a caller passes
MaxFed == 3

-----------------------------------------------------------------------------
(* Text. *)

Whitespace == {" ", "\n"}
Terminators == {".", "!", "?"}
Letters == {"a", "b", "c", "d", "e", "g", "h", "l", "n", "o", "r", "s", "t",
            "w", "y", "B", "H", "T"}
Char == Letters \cup Whitespace \cup Terminators

\* the characters of a free transport stream
Alphabet == {"a", ".", " ", "\n"}

Min(S) == CHOOSE x \in S : \A y \in S : x <= y
Max(S) == CHOOSE x \in S : \A y \in S : y <= x

\* Python s[i:]
Suffix(s, i) == SubSeq(s, i + 1, Len(s))
\* Python s[i:j]
Slice(s, i, j) == SubSeq(s, i + 1, j)

\* Python str.strip()
Strip(s) ==
    LET keep == {i \in 1..Len(s) : s[i] \notin Whitespace}
    IN  IF keep = {} THEN <<>> ELSE SubSeq(s, Min(keep), Max(keep))

IsPrefix(s, t) == Len(s) <= Len(t) /\ SubSeq(t, 1, Len(s)) = s

\* "".join(ss)
RECURSIVE Flatten(_)
Flatten(ss) == IF ss = <<>> THEN <<>> ELSE Head(ss) \o Flatten(Tail(ss))

\* sequences over S of length lo..hi
SeqsOf(S, lo, hi) == UNION {[1..n -> S] : n \in lo..hi}


-----------------------------------------------------------------------------
(* MessageSplitter.END_OF_INPUT = "" *)
END_OF_INPUT == <<>>

-----------------------------------------------------------------------------
(* Regular expressions.  A configured message_regex is one of the patterns *)
(*     skip* ( body* ) delim                                               *)
(* where skip and body are character classes and delim a literal whose     *)
(* first character is in neither class, so that re.match has one outcome:  *)
(* the longest run of skip, then the longest run of body, then delim.      *)

NoRegex == [name |-> "", skip |-> {}, body |-> {}, delim |-> <<>>]
\* (.*?)\n
LineRegex == [name |-> "(.*?)\\n", skip |-> {}, body |-> Char \ {"\n"},
              delim |-> <<"\n">>]
\* [ ]*([^\n]*?)\n
TrimRegex == [name |-> "[ ]*([^\\n]*?)\\n", skip |-> {" "},
              body |-> Char \ {"\n"}, delim |-> <<"\n">>]
\* (a*)
StarRegex == [name |-> "(a*)", skip |-> {}, body |-> {"a"}, delim |-> <<>>]

Regexes == {LineRegex, TrimRegex, StarRegex}

\* end offset of the longest run of characters of S in s that starts at offset i
RunEnd(s, i, S) ==
    CHOOSE j \in i..Len(s) :
        /\ \A k \in (i + 1)..j : s[k] \in S
        /\ j = Len(s) \/ s[j + 1] \notin S

\* re.compile(regex).match(s): ok is "match is not None", start1 and end1 are
\* match.start(1) and match.end(1), end is match.end()
Match(regex, s) ==
    LET i == RunEnd(s, 0, regex.skip)
        j == RunEnd(s, i, regex.body)
        e == j + Len(regex.delim)
    IN  IF e <= Len(s) /\ Slice(s, j, e) = regex.delim
        THEN [ok |-> TRUE, start1 |-> i, end1 |-> j, end |-> e]
        ELSE [ok |-> FALSE, start1 |-> 0, end1 |-> 0, end |-> 0]

-----------------------------------------------------------------------------
(* The sentence segmenter, pysbd.Segmenter(language="en", clean=False,     *)
(* char_span=True).segment: a list of TextSpan(sent, start, end) in        *)
(* document order.  A sentence starts at the first character that is not   *)
(* whitespace and after every run of whitespace that follows a terminator  *)
(* or holds a line break; a span is the sentence with the whitespace that  *)
(* follows it, so spans are adjacent and the last one ends the text.       *)
(* Whitespace before the first sentence is in no span; text without a      *)
(* sentence gives no span.                                                 *)

\* offset at which the run of whitespace that ends at offset b begins
WsRunStart(s, b) ==
    CHOOSE a \in 0..b :
        /\ \A k \in (a + 1)..b : s[k] \in Whitespace
        /\ a = 0 \/ s[a] \notin Whitespace

\* offsets at which a sentence starts
SentenceStarts(s) ==
    {b \in 0..(Len(s) - 1) :
        /\ s[b + 1] \notin Whitespace
        /\ LET a == WsRunStart(s, b)
           IN  \/ a = 0
               \/ /\ a < b
                  /\ \/ s[a] \in Terminators
                     \/ \E k \in (a + 1)..b : s[k] = "\n"}

\* the k-th smallest element of S
Kth(S, k) == CHOOSE x \in S : Cardinality({y \in S : y < x}) = k - 1

Segment(s) ==
    LET starts == SentenceStarts(s)
        n == Cardinality(starts)
        stop(k) == IF k = n THEN Len(s) ELSE Kth(starts, k + 1)
    IN  [k \in 1..n |->
            [sent  |-> Slice(s, Kth(starts, k), stop(k)),
             start |-> Kth(starts, k),
             end   |-> stop(k)]]

-----------------------------------------------------------------------------
(* The transport: what client.events() delivers.  An event carries         *)
(* payload["choices"][0]["text"], whether its finish_reason is not None,   *)
(* and (for a scripted stream) the clock value at which it arrives.        *)

Ev(text, fin, at) == [text |-> text, fin |-> fin, at |-> at]

DelimiterExample ==
    << Ev(<<"H", "e", "l", "l", "o">>, FALSE, 0),
       Ev(<<" ", "w", "o", "r", "l", "d", "\n">>, FALSE, 0),
       Ev(<<"B", "y", "e", "\n">>, FALSE, 0),
       Ev(<<>>, TRUE, 0) >>

SentenceExample ==
    << Ev(<<"T", "h", "e", " ", "c", "a", "t", " ", "s", "a", "t", ".", " ",
            "T", "h", "e", " ", "d", "o", "g", " ">>, FALSE, 0),
       Ev(<<"r", "a", "n", ".">>, FALSE, 0),
       Ev(<<>>, TRUE, 0) >>

BatchingExample ==
    << Ev(<<"a">>, FALSE, 0), Ev(<<"b">>, FALSE, 30), Ev(<<"c">>, FALSE, 60),
       Ev(<<"d">>, FALSE, 90), Ev(<<"e">>, FALSE, 150), Ev(<<>>, TRUE, 160) >>

\* a stream of one event that carries text and a finish_reason
ShortExample == << Ev(<<"a", "\n", "b">>, TRUE, 0) >>

ScriptEvents ==
    CASE script = "delimiter" -> DelimiterExample
      [] script = "short"     -> ShortExample
      [] script = "sentence"  -> SentenceExample
      [] script = "batching"  -> BatchingExample
      [] OTHER                -> <<>>

\* the events the transport can deliver next
NextEvents ==
    IF script = "free"
    THEN IF events_seen < MaxEvents
         THEN {Ev(t, f, 0) :
                 t \in SeqsOf(Alphabet, 0,
                              Min({MaxTokLen, MaxLen - Len(streamed)})),
                 f \in BOOLEAN}
         ELSE {}
    ELSE IF events_seen < Len(ScriptEvents)
         THEN {ScriptEvents[events_seen + 1]}
         ELSE {}

\* whether the transport's event iterator can end here
CanExhaust ==
    script = "free" \/ events_seen >= Len(ScriptEvents)

\* the values time.perf_counter() can return when a token has just arrived
NowChoices ==
    IF script = "free"
    THEN clock..MaxTime
    ELSE {ScriptEvents[events_seen].at}

\* the values time.perf_counter() can return when the caller resumes a
\* generator that yielded a batch: not before the last reading and not after
\* the next event arrives
ResumeChoices ==
    IF script = "free"
    THEN clock..MaxTime
    ELSE {clock} \cup {e.at : e \in NextEvents}

-----------------------------------------------------------------------------
(* Initial state: the client is constructed and one request_* call begins. *)

Configs ==
    {[mode |-> "message", script |-> "free", regex |-> r, interval |-> 0] :
        r \in Regexes \cup {NoRegex}}
    \cup {[mode |-> "message", script |-> "delimiter", regex |-> LineRegex,
           interval |-> 0],
          [mode |-> "message", script |-> "sentence", regex |-> NoRegex,
           interval |-> 0],
          [mode |-> "grouped", script |-> "free", regex |-> NoRegex,
           interval |-> FreeInterval],
          [mode |-> "grouped", script |-> "batching", regex |-> NoRegex,
           interval |-> 100],
          [mode |-> "raw", script |-> "free", regex |-> NoRegex,
           interval |-> 0],
          [mode |-> "string", script |-> "free", regex |-> NoRegex,
           interval |-> 0]}
    \cup {[mode |-> "splitter", script |-> "free", regex |-> r,
            interval |-> 0] : r \in Regexes \cup {NoRegex}}

InitMode(m) ==
    /\ \E c \in Configs :
        /\ c.mode = m
        /\ mode = c.mode
        /\ script = c.script
        /\ message_regex = c.regex
        /\ interval = c.interval
    /\ total_response_tokens = 0
    /\ src_pc = "events"
    /\ token = <<>>
    /\ cpc = "await"
    /\ full_response = <<>>
    /\ printed_idx = 0
    /\ match_end = 0
    /\ segments = <<>>
    /\ seg_i = 0
    /\ tokens = <<>>
    /\ last_response = 0
    /\ clock = 0
    /\ out = <<>>
    /\ emitted = <<>>
    /\ dropped = {}
    /\ streamed = <<>>
    /\ idx0 = 0
    /\ calls = 0
    /\ events_seen = 0
    /\ collected = <<>>
    /\ other = <<>>

splitter_vars == <<full_response, printed_idx, match_end, segments, seg_i,
                   emitted, dropped, idx0, calls>>
grouped_vars == <<tokens, last_response, clock>>
config_vars == <<mode, script, message_regex, interval>>
\* the client's event counter and the call's own count of events
source_counters == <<total_response_tokens, events_seen>>
\* what only request_as_string and a second call change
aside_vars == <<collected, other>>

-----------------------------------------------------------------------------
(* request_by_token, lines 258-286.  It is resumed only while its consumer *)
(* waits for the next item (cpc = "await").                                *)

\* one iteration of `for event in client.events()`
SrcEvent(e) ==
    /\ cpc = "await"
    /\ src_pc = "events"
    /\ e \in NextEvents
    /\ total_response_tokens' = total_response_tokens + 1
    /\ events_seen' = events_seen + 1
    /\ streamed' = streamed \o e.text
    /\ IF e.text # END_OF_INPUT
       THEN /\ token' = e.text
            /\ cpc' = "got"
            /\ src_pc' = IF e.fin THEN "text_fin" ELSE "events"
       ELSE IF e.fin
            THEN /\ token' = END_OF_INPUT
                 /\ cpc' = "got"
                 /\ src_pc' = "end"
            ELSE UNCHANGED <<token, cpc, src_pc>>
    /\ UNCHANGED <<config_vars, aside_vars, splitter_vars, grouped_vars, out>>

\* resumed after `yield text` of an event whose finish_reason is not None
SrcFinish ==
    /\ cpc = "await"
    /\ src_pc = "text_fin"
    /\ token' = END_OF_INPUT
    /\ cpc' = "got"
    /\ src_pc' = "end"
    /\ UNCHANGED <<config_vars, aside_vars, splitter_vars, grouped_vars, out, streamed,
                   source_counters>>

\* variant of AfterEndOfInput: no return, the event loop goes on
AfterEndContinues == [src_pc |-> "events", cpc |-> "await"]

\* line 286: `return` ends the generator, and with it its consumer's
\* `async for`
AfterEndOfInput == [src_pc |-> "closed", cpc |-> "done"]

\* resumed after `yield SentenceSplitter.END_OF_INPUT`: return
SrcReturn ==
    /\ cpc = "await"
    /\ src_pc = "end"
    /\ src_pc' = AfterEndOfInput.src_pc
    /\ cpc' = AfterEndOfInput.cpc
    /\ UNCHANGED <<config_vars, aside_vars, splitter_vars, grouped_vars, out, streamed,
                   source_counters, token>>

\* client.events() ends without an event whose finish_reason is set
SrcExhausted ==
    /\ cpc = "await"
    /\ src_pc = "events"
    /\ CanExhaust
    /\ src_pc' = "exhausted"
    /\ cpc' = "done"
    /\ UNCHANGED <<config_vars, aside_vars, splitter_vars, grouped_vars, out, streamed,
                   source_counters, token>>

\* the steps that yield an item or end the iteration early
SourceYield == (\E e \in NextEvents : SrcEvent(e)) \/ SrcFinish
                   \/ SrcExhausted

Source == SourceYield \/ SrcReturn

\* variant of Raised: the error is caught and the marker is yielded
RaisedThenEndOfInput ==
    [src_pc |-> "failed", cpc |-> "got", token |-> END_OF_INPUT]

\* an exception raised in the loop body: request_by_token has no try, and
\* neither request_by_message nor request_as_grouped_tokens has one around
\* its `async for`, so the generator dies and its consumer's caller gets
\* the exception in place of an item
Raised == [src_pc |-> "failed", cpc |-> "failed", token |-> token]

\* one iteration of `for event in client.events()` whose event cannot be
\* decoded: json.loads (line 259) raises on a malformed payload, lines
\* 260-261 raise on a missing field; line 271 is not reached
SrcFail ==
    /\ cpc = "await"
    /\ src_pc = "events"
    /\ NextEvents # {}
    /\ events_seen' = events_seen + 1
    /\ src_pc' = Raised.src_pc
    /\ cpc' = Raised.cpc
    /\ token' = Raised.token
    /\ UNCHANGED <<config_vars, aside_vars, splitter_vars, grouped_vars, out,
                   streamed, total_response_tokens>>

-----------------------------------------------------------------------------
(* MessageSplitter and its two strategies, lines 22-129.                   *)

\* a unit as the history records it: its text and the offsets of
\* full_response it was taken from
Unit(text, lo, hi, kind, call) ==
    [text |-> text, lo |-> lo, hi |-> hi, kind |-> kind, call |-> call]

\* variants of FlushEmits: the window is tested without strip(); the
\* window is not tested
FlushEmitsUnstripped(unseen) == unseen # <<>>

FlushEmitsAlways(unseen) == TRUE

\* lines 59-60: `to_print = unseen.strip()`, `if to_print:`
FlushEmits(unseen) == Strip(unseen) # <<>>

\* variants of RegexAdvance: one past the match; the end of group 1; at
\* least one character
RegexAdvanceOffByOne(m) == m.end + 1

RegexAdvanceAtLeastOne(m) == IF m.end = 0 THEN 1 ELSE m.end

RegexAdvanceGroupEnd(m) == m.end1

\* line 88: the amount `self.printed_idx += match.end()` adds
RegexAdvance(m) == m.end

\* variant of AllButLast: every segment
AllSegments(segs) == segs

\* line 110: segments[:-1]
AllButLast(segs) == SubSeq(segs, 1, Len(segs) - 1)

\* variant of ToPrint: all surrounding whitespace removed
ToPrintStripped(sent) == Strip(sent)

\* lines 119-121: the sentence without one trailing "\n"
ToPrint(sent) ==
    IF Len(sent) > 0 /\ sent[Len(sent)] = "\n"
    THEN SubSeq(sent, 1, Len(sent) - 1)
    ELSE sent

\* variant of SentenceAdvance: the end of the last segment
SentenceAdvanceToEnd(segs) ==
    IF Len(segs) > 0 THEN segs[Len(segs)].end ELSE 0

\* lines 128-129: the amount added to printed_idx after the loop
SentenceAdvance(segs) ==
    IF Len(segs) > 0 THEN segs[Len(segs)].start ELSE 0

\* RegexSplitter.partition from the top of `while True` (line 82) to its
\* next yield (line 87) or its end (line 85), with the cursor at idx
RegexLoop(fr, idx, call) ==
    LET unseen == Suffix(fr, idx)
        m == Match(message_regex, unseen)
    IN  IF m.ok
        THEN /\ out' = Append(out, Slice(unseen, m.start1, m.end1))
             /\ emitted' = Append(emitted,
                    Unit(Slice(unseen, m.start1, m.end1),
                         idx + m.start1, idx + m.end1, "regex", call))
             /\ match_end' = RegexAdvance(m)
             /\ cpc' = "regex_yield"
        ELSE /\ cpc' = "await"
             /\ UNCHANGED <<out, emitted, match_end>>

\* SentenceSplitter.partition from the loop header (line 110) at position i
\* of segments[:-1] to its next yield (line 123) or its end (line 129)
SentenceLoop(segs, i, call) ==
    IF i <= Len(AllButLast(segs))
    THEN LET sp == AllButLast(segs)[i]
             to_print == ToPrint(sp.sent)
         IN  /\ out' = Append(out, to_print)
             /\ emitted' = Append(emitted,
                    Unit(to_print, printed_idx + sp.start,
                         printed_idx + sp.start + Len(to_print), "sentence",
                         call))
             /\ dropped' = dropped \cup
                    ((printed_idx + sp.start + Len(to_print))
                        .. (printed_idx + sp.end - 1))
             /\ seg_i' = i
             /\ cpc' = "sent_yield"
             /\ UNCHANGED printed_idx
    ELSE /\ printed_idx' = printed_idx + SentenceAdvance(segs)
         /\ cpc' = "await"
         /\ seg_i' = i
         /\ UNCHANGED <<out, emitted, dropped>>

\* request_by_message line 195 calls splitter.next(new_token) and pulls its
\* first unit: MessageSplitter.next from line 53 to its first yield or its end
NextCall ==
    /\ mode \in {"message", "splitter"}
    /\ cpc = "got"
    /\ full_response' = full_response \o token
    /\ idx0' = printed_idx
    /\ calls' = calls + 1
    /\ LET unseen == Suffix(full_response', printed_idx)
       IN  IF token = END_OF_INPUT
           THEN /\ IF FlushEmits(unseen)
                   THEN /\ out' = Append(out, unseen)
                        /\ emitted' = Append(emitted,
                               Unit(unseen, printed_idx,
                                    Len(full_response'), "eos", calls + 1))
                        /\ cpc' = "eos_yield"
                        /\ UNCHANGED printed_idx
                   ELSE /\ printed_idx' = printed_idx + Len(unseen)
                        /\ cpc' = "await"
                        /\ UNCHANGED <<out, emitted>>
                /\ UNCHANGED <<match_end, segments, seg_i, dropped>>
           ELSE IF message_regex # NoRegex
                THEN /\ RegexLoop(full_response', printed_idx, calls + 1)
                     /\ UNCHANGED <<printed_idx, segments, seg_i, dropped>>
                ELSE /\ segments' = Segment(unseen)
                     /\ SentenceLoop(segments', 1, calls + 1)
                     /\ UNCHANGED match_end
    /\ UNCHANGED <<config_vars, aside_vars, grouped_vars, source_counters, src_pc,
                   token, streamed>>

\* the caller asks for the next unit after the end-of-input unit:
\* lines 62-63
FlushResume ==
    /\ cpc = "eos_yield"
    /\ printed_idx' = printed_idx + Len(Suffix(full_response, printed_idx))
    /\ cpc' = "await"
    /\ UNCHANGED <<config_vars, aside_vars, grouped_vars, source_counters, src_pc,
                   token, streamed, full_response, match_end, segments, seg_i,
                   out, emitted, dropped, idx0, calls>>

\* the caller asks for the next unit after a unit of RegexSplitter.partition:
\* lines 88-89, then the loop again
RegexResume ==
    /\ cpc = "regex_yield"
    /\ Len(out) < MaxUnits
    /\ printed_idx' = printed_idx + match_end
    /\ dropped' = dropped \cup
           {k \in printed_idx .. (printed_idx' - 1) :
               ~ (emitted[Len(emitted)].lo <= k /\ k < emitted[Len(emitted)].hi)}
    /\ RegexLoop(full_response, printed_idx', calls)
    /\ UNCHANGED <<config_vars, aside_vars, grouped_vars, source_counters, src_pc,
                   token, streamed, full_response, segments, seg_i, idx0,
                   calls>>

\* the caller asks for the next unit after a unit of
\* SentenceSplitter.partition: the loop's next iteration
SentenceResume ==
    /\ cpc = "sent_yield"
    /\ SentenceLoop(segments, seg_i + 1, calls)
    /\ UNCHANGED <<config_vars, aside_vars, grouped_vars, source_counters, src_pc,
                   token, streamed, full_response, match_end, segments, idx0,
                   calls>>

Message == NextCall \/ FlushResume \/ RegexResume \/ SentenceResume

NextMessage == Source \/ Message

InitMessage == InitMode("message")

SpecMessage == InitMessage /\ [][NextMessage]_vars

-----------------------------------------------------------------------------
(* A MessageSplitter driven by its caller, without request_by_message:     *)
(* the caller constructs RegexSplitter(regex) or SentenceSplitter(), calls *)
(* next(new_token) with the tokens it chooses, END_OF_INPUT any number of  *)
(* times among them, and pulls units from the generator each call returns. *)
(* Nothing makes it pull a generator to its end.                           *)

\* the tokens the caller can pass to next()
FeedTokens ==
    SeqsOf(Alphabet, 0, Min({MaxTokLen, MaxFed - Len(full_response)}))

\* the caller calls next(t): lines 53-54 run when it pulls the first unit
Feed(t) ==
    /\ mode = "splitter"
    /\ cpc = "await"
    /\ calls < MaxCalls
    /\ t \in FeedTokens
    /\ token' = t
    /\ cpc' = "got"
    /\ UNCHANGED <<config_vars, aside_vars, splitter_vars, grouped_vars,
                   source_counters, src_pc, streamed, out>>

\* the caller stops pulling a generator that is suspended at a yield
\* (lines 61, 87, 123) and drops it: the code after the yield never runs
Abandon ==
    /\ mode = "splitter"
    /\ cpc \in {"eos_yield", "regex_yield", "sent_yield"}
    /\ cpc' = "await"
    /\ UNCHANGED <<config_vars, aside_vars, splitter_vars, grouped_vars,
                   source_counters, src_pc, token, streamed, out>>

NextSplitter == (\E t \in FeedTokens : Feed(t)) \/ Abandon \/ Message

InitSplitter == InitMode("splitter")

SpecSplitter == InitSplitter /\ [][NextSplitter]_vars

-----------------------------------------------------------------------------
(* request_as_grouped_tokens, lines 204-226.  last_response is first set   *)
(* when the call begins (line 213): that reading is the origin of the      *)
(* clock.                                                                  *)

\* variant of KeepsAccumulating: `<=` for `<`
KeepsAccumulatingInclusive(now, last, ival) == now <= last + ival

\* line 222: `now < (last_response + interval)`
KeepsAccumulating(now, last, ival) == now < last + ival

\* variant of HasFinalBatch: the final batch is released even when empty
HasFinalBatchAlways(buffer) == TRUE

\* line 217: `if tokens:`
HasFinalBatch(buffer) == buffer # <<>>

\* variant of AfterRelease: the buffer is not cleared
AfterReleaseKept(buffer) == buffer

\* line 225: `tokens = ""`
AfterRelease(buffer) == <<>>

\* line 220: `tokens += token`
Buffered(buffer, new_token) == buffer \o new_token

\* the loop body for one item of request_by_token, lines 216-224, to its
\* next yield, its `continue` or its `break`
GroupedToken ==
    /\ mode = "grouped"
    /\ cpc = "got"
    /\ IF token = END_OF_INPUT
       THEN /\ IF HasFinalBatch(tokens)
               THEN /\ out' = Append(out, tokens)
                    /\ cpc' = "final_yield"
               ELSE /\ cpc' = "done"
                    /\ UNCHANGED out
            /\ UNCHANGED <<tokens, clock>>
       ELSE /\ tokens' = Buffered(tokens, token)
            /\ \E now \in NowChoices :
                /\ now >= clock
                /\ clock' = now
                /\ IF KeepsAccumulating(now, last_response, interval)
                   THEN /\ cpc' = "await"
                        /\ UNCHANGED out
                   ELSE /\ out' = Append(out, tokens')
                        /\ cpc' = "batch_yield"
    /\ UNCHANGED <<config_vars, aside_vars, splitter_vars, source_counters, src_pc,
                   token, streamed, last_response>>

\* the caller asks for the next batch after an interval batch: lines 225-226
GroupedResume ==
    /\ cpc = "batch_yield"
    /\ tokens' = AfterRelease(tokens)
    /\ \E t \in ResumeChoices :
        /\ clock' = t
        /\ last_response' = t
    /\ cpc' = "await"
    /\ UNCHANGED <<config_vars, aside_vars, splitter_vars, source_counters, src_pc,
                   token, streamed, out>>

\* the caller asks for the next batch after the final batch: line 219
GroupedBreak ==
    /\ cpc = "final_yield"
    /\ cpc' = "done"
    /\ UNCHANGED <<config_vars, aside_vars, splitter_vars, grouped_vars,
                   source_counters, src_pc, token, streamed, out>>

Grouped == GroupedToken \/ GroupedResume \/ GroupedBreak

\* the `break` of line 219 leaves request_by_token suspended at its last
\* yield: it is never resumed to its return
NextGrouped == SourceYield \/ Grouped

InitGrouped == InitMode("grouped")

SpecGrouped == InitGrouped /\ [][NextGrouped]_vars

-----------------------------------------------------------------------------
(* request_by_message and request_as_grouped_tokens over a transport whose *)
(* events may fail to decode.  (SpecMessage, SpecGrouped and SpecRaw are   *)
(* the calls over a stream of well-formed events.)                         *)

NextFailing == Source \/ SrcFail \/ Message \/ Grouped

InitFailing == InitMode("message") \/ InitMode("grouped")

SpecFailing == InitFailing /\ [][NextFailing]_vars

-----------------------------------------------------------------------------
(* Two request_* calls on one client.  Each call is a generator object     *)
(* with its own locals (splitter, tokens, last_response, the position in   *)
(* its own transport stream); the client's message_regex and               *)
(* total_response_tokens, and the clock, are common to both.  The          *)
(* variables hold the locals of the call that is running, `other` those    *)
(* of the suspended one; Switch is the caller turning from one generator   *)
(* to the other.                                                           *)

\* the locals of the call that is running
Locals ==
    [mode |-> mode, script |-> script, interval |-> interval,
     src_pc |-> src_pc, token |-> token, cpc |-> cpc,
     full_response |-> full_response, printed_idx |-> printed_idx,
     match_end |-> match_end, segments |-> segments, seg_i |-> seg_i,
     tokens |-> tokens, last_response |-> last_response, out |-> out,
     emitted |-> emitted, dropped |-> dropped, streamed |-> streamed,
     idx0 |-> idx0, calls |-> calls, events_seen |-> events_seen,
     collected |-> collected]

\* the locals of a call that has not begun
FreshLocals(m, sc, ival) ==
    [mode |-> m, script |-> sc, interval |-> ival,
     src_pc |-> "events", token |-> <<>>, cpc |-> "await",
     full_response |-> <<>>, printed_idx |-> 0,
     match_end |-> 0, segments |-> <<>>, seg_i |-> 0,
     tokens |-> <<>>, last_response |-> 0, out |-> <<>>,
     emitted |-> <<>>, dropped |-> {}, streamed |-> <<>>,
     idx0 |-> 0, calls |-> 0, events_seen |-> 0,
     collected |-> <<>>]

\* the calls made on a client constructed with message_regex r
CallsOn(r) ==
    {FreshLocals("message", sc, 0) :
        sc \in {IF r = NoRegex THEN "sentence" ELSE "delimiter", "short"}}
    \cup {FreshLocals("grouped", sc, 100) : sc \in {"batching", "short"}}

\* the generator has not been pulled yet
NotBegun(c) == c.events_seen = 0 /\ c.src_pc = "events" /\ c.cpc = "await"

\* variant of OwnSplitter: one splitter, made once, serves every call
SharedSplitter(saved, live) == live

\* line 193: `splitter = self.fn_new_splitter()` is a local of the call, so
\* a resumed call finds the splitter it left
OwnSplitter(saved, live) == saved

\* the caller turns to the other call's generator
Switch ==
    /\ other # <<>>
    /\ cpc # "got"
    /\ other' = Locals
    /\ mode' = other.mode
    /\ script' = other.script
    /\ interval' = other.interval
    /\ src_pc' = other.src_pc
    /\ token' = other.token
    /\ cpc' = other.cpc
    /\ full_response' = OwnSplitter(other, Locals).full_response
    /\ printed_idx' = OwnSplitter(other, Locals).printed_idx
    /\ match_end' = other.match_end
    /\ segments' = other.segments
    /\ seg_i' = other.seg_i
    /\ tokens' = other.tokens
    \* line 213 reads the clock when the call begins
    /\ last_response' = IF NotBegun(other) THEN clock
                                            ELSE other.last_response
    /\ out' = other.out
    /\ emitted' = other.emitted
    /\ dropped' = other.dropped
    /\ streamed' = other.streamed
    /\ idx0' = other.idx0
    /\ calls' = other.calls
    /\ events_seen' = other.events_seen
    /\ collected' = other.collected
    /\ UNCHANGED <<message_regex, total_response_tokens, clock>>

NextTwo == (\E e \in NextEvents : SrcEvent(e)) \/ SrcFinish \/ SrcReturn
               \/ Message \/ Grouped \/ Switch

InitTwo ==
    /\ message_regex \in {LineRegex, NoRegex}
    /\ \E c \in CallsOn(message_regex) :
        /\ mode = c.mode
        /\ script = c.script
        /\ interval = c.interval
    /\ other \in CallsOn(message_regex)
    /\ total_response_tokens = 0
    /\ src_pc = "events"
    /\ token = <<>>
    /\ cpc = "await"
    /\ full_response = <<>>
    /\ printed_idx = 0
    /\ match_end = 0
    /\ segments = <<>>
    /\ seg_i = 0
    /\ tokens = <<>>
    /\ last_response = 0
    /\ clock = 0
    /\ out = <<>>
    /\ emitted = <<>>
    /\ dropped = {}
    /\ streamed = <<>>
    /\ idx0 = 0
    /\ calls = 0
    /\ events_seen = 0
    /\ collected = <<>>

SpecTwo == InitTwo /\ [][NextTwo]_vars

-----------------------------------------------------------------------------
(* Raw mode: the caller iterates request_by_token itself.                  *)

\* the caller receives one item and asks for the next
RawConsume ==
    /\ mode = "raw"
    /\ cpc = "got"
    /\ out' = Append(out, token)
    /\ cpc' = "await"
    /\ UNCHANGED <<config_vars, aside_vars, splitter_vars, grouped_vars,
                   source_counters, src_pc, token, streamed>>

NextRaw == Source \/ RawConsume

InitRaw == InitMode("raw")

SpecRaw == InitRaw /\ [][NextRaw]_vars

-----------------------------------------------------------------------------
(* request_as_string, lines 198-202: a list comprehension over             *)
(* request_by_token, then "".join of the list.                             *)

\* variant of Joined: " ".join
RECURSIVE JoinedWithSpaces(_)
JoinedWithSpaces(list) ==
    IF Len(list) <= 1 THEN Flatten(list)
    ELSE Head(list) \o <<" ">> \o JoinedWithSpaces(Tail(list))

\* line 200: `"".join([...])`
Joined(list) == Flatten(list)

\* the comprehension takes one item of request_by_token, the marker too
StringCollect ==
    /\ mode = "string"
    /\ cpc = "got"
    /\ collected' = Append(collected, token)
    /\ cpc' = "await"
    /\ UNCHANGED <<config_vars, other, splitter_vars, grouped_vars,
                   source_counters, src_pc, token, streamed, out>>

\* request_by_token has ended: the list is joined and returned
StringReturn ==
    /\ mode = "string"
    /\ cpc = "done"
    /\ out' = <<Joined(collected)>>
    /\ cpc' = "returned"
    /\ UNCHANGED <<config_vars, aside_vars, splitter_vars, grouped_vars,
                   source_counters, src_pc, token, streamed>>

NextString == Source \/ SrcFail \/ StringCollect \/ StringReturn

InitString == InitMode("string")

SpecString == InitString /\ [][NextString]_vars

-----------------------------------------------------------------------------
(* Vocabulary of the properties.                                           *)

\* the splitter was given END_OF_INPUT and that call has been drained
EosDrained ==
    /\ mode = "message"
    /\ \/ src_pc = "end" /\ cpc = "await"
       \/ src_pc = "closed"

\* a non-terminal next() call of the splitter has been drained
CallDrained ==
    /\ mode = "message"
    /\ calls >= 1
    /\ token # END_OF_INPUT
    /\ cpc = "await"

\* unit i covers offset k of full_response
Covers(i, k) == emitted[i].lo <= k /\ k < emitted[i].hi

Covered(k) == \E i \in 1..Len(emitted) : Covers(i, k)

Offsets == 0 .. (Len(full_response) - 1)

\* the unseen window of the call in progress (or last made), as the call saw it
Window == Suffix(full_response, idx0)

\* the units of the call in progress (or last made)
CallUnits == SelectSeq(emitted, LAMBDA u : u.call = calls)

-----------------------------------------------------------------------------
(* C1: no two units a splitter emits, the end-of-input unit included,      *)
(* cover a common offset of full_response.                                 *)
C1_NoDuplication ==
    \A i, j \in 1..Len(emitted) :
        i < j => ~ \E k \in Offsets : Covers(i, k) /\ Covers(j, k)

\* a sentence unit and, after it, the end-of-input unit, both non-empty
C1_Witness ==
    /\ EosDrained
    /\ \E i, j \in 1..Len(emitted) :
        /\ i < j
        /\ emitted[i].kind = "sentence" /\ emitted[i].lo < emitted[i].hi
        /\ emitted[j].kind = "eos" /\ emitted[j].lo < emitted[j].hi

-----------------------------------------------------------------------------
InBlankFlush(k) ==
    /\ idx0 <= k
    /\ Strip(Window) = <<>>

\* offset k is whitespace with nothing but whitespace before it
InLeadingWhitespace(k) ==
    /\ message_regex = NoRegex
    /\ \A j \in 0..k : full_response[j + 1] \in Whitespace

-----------------------------------------------------------------------------
(* C3: 0 <= printed_idx <= len(full_response) in every state; no step      *)
(* decreases printed_idx; every step leaves full_response a prefix of its  *)
(* new value.                                                              *)
C3_MonotonicBoundedCursor ==
    /\ [](0 <= printed_idx /\ printed_idx <= Len(full_response))
    /\ [][/\ printed_idx' >= printed_idx
          /\ IsPrefix(full_response, full_response')]_vars

\* the cursor stands strictly inside the text after several calls
C3_Witness ==
    /\ mode = "message"
    /\ calls >= 2
    /\ 0 < printed_idx
    /\ printed_idx < Len(full_response)

-----------------------------------------------------------------------------
-----------------------------------------------------------------------------
(* The strings of the examples.                                            *)

HelloWorld == <<"H", "e", "l", "l", "o", " ", "w", "o", "r", "l", "d">>
Bye == <<"B", "y", "e">>
TheCatSat == <<"T", "h", "e", " ", "c", "a", "t", " ", "s", "a", "t", ".">>
TheDogRan == <<"T", "h", "e", " ", "d", "o", "g", " ", "r", "a", "n", ".">>

\* request_as_grouped_tokens has ended on END_OF_INPUT
GroupedEnded == mode = "grouped" /\ cpc = "done" /\ src_pc = "end"

-----------------------------------------------------------------------------
(* C5, as claimed: in the batching example (interval 100; "a".."e" at 0,   *)
(* 30, 60, 90, 150; end of stream at 160) exactly two batches are          *)
(* released, "abcd" and then "e".                                          *)
C5_BatchingExample_Claimed ==
    (script = "batching" /\ GroupedEnded) =>
        out = << <<"a", "b", "c", "d">>, <<"e">> >>

(* C5, amended: in the batching example, the call beginning at time 0,     *)
(* exactly one batch is released,                                          *)
(* "abcde", when the token "e" arrives at time 150 (the first arrival at   *)
(* or after time 100); nothing is released before it and nothing at end of *)
(* stream.                                                                 *)
C5_BatchingExample ==
    script = "batching" =>
        /\ clock < 150 => out = <<>>
        /\ cpc = "batch_yield" => clock = 150
        /\ (cpc = "batch_yield" \/ src_pc = "end") =>
               out = << <<"a", "b", "c", "d", "e">> >>

\* the example has run to its end
C5_Witness ==
    /\ script = "batching"
    /\ GroupedEnded
    /\ total_response_tokens = 6
    /\ clock = 160

-----------------------------------------------------------------------------
(* C6: the released batches, concatenated in release order, are at every   *)
(* moment a prefix of the concatenation of the text tokens received, and   *)
(* equal to it once the call has ended on END_OF_INPUT.                    *)
C6_BatcherConservation ==
    mode = "grouped" =>
        /\ IsPrefix(Flatten(out), streamed)
        /\ GroupedEnded => Flatten(out) = streamed

\* an interval batch of two tokens and a final batch
C6_Witness ==
    /\ GroupedEnded
    /\ script = "free"
    /\ Len(out) >= 2
    /\ total_response_tokens >= 3
    /\ Len(streamed) >= 3
    /\ Len(out[1]) >= 2

-----------------------------------------------------------------------------
(* C7, as claimed: when request_by_token has finished, the items it        *)
(* yielded are the text deltas in arrival order followed by exactly one    *)
(* END_OF_INPUT, and no earlier item is END_OF_INPUT.                      *)
C7_RawStreamShape ==
    mode = "raw" =>
        /\ \A i \in 1..(Len(out) - 1) : out[i] # END_OF_INPUT
        /\ cpc = "done" =>
               /\ out # <<>>
               /\ out[Len(out)] = END_OF_INPUT
               /\ Flatten(out) = streamed

-----------------------------------------------------------------------------
(* C8: while RegexSplitter.partition is suspended at its yield the pattern *)
(* matches at the start of the unseen window and the unit just emitted is  *)
(* group 1 of that match; resuming it advances printed_idx by the whole    *)
(* match and emits at most one more unit; when a non-terminal call is      *)
(* drained the pattern does not match the unseen window.  In the delimiter *)
(* example the units are "Hello world" and "Bye", none at end of input.    *)
C8_DelimiterPartition ==
    /\ [](/\ cpc = "regex_yield" =>
               LET unseen == Suffix(full_response, printed_idx)
                   m == Match(message_regex, unseen)
               IN  /\ m.ok
                   /\ out[Len(out)] = Slice(unseen, m.start1, m.end1)
          /\ (CallDrained /\ message_regex # NoRegex) =>
               ~ Match(message_regex, Suffix(full_response, printed_idx)).ok
          /\ (script = "delimiter" /\ calls = 1) => out = <<>>
          /\ (script = "delimiter" /\ calls = 2 /\ cpc = "await") =>
               out = <<HelloWorld>>
          /\ (script = "delimiter" /\ calls >= 3 /\ cpc = "await") =>
               out = <<HelloWorld, Bye>>
          /\ (script = "delimiter" /\ EosDrained) =>
               /\ out = <<HelloWorld, Bye>>
               /\ printed_idx = Len(full_response))
    /\ [][cpc = "regex_yield" =>
            /\ printed_idx' = printed_idx
                 + Match(message_regex, Suffix(full_response, printed_idx)).end
            /\ Len(out') <= Len(out) + 1]_vars

\* the delimiter example has run to its end, every call drained
C8_Witness ==
    /\ script = "delimiter"
    /\ EosDrained
    /\ calls = 4
    /\ Len(out) = 2

-----------------------------------------------------------------------------
(* C9: while a non-terminal call of the sentence splitter runs, no unit of *)
(* the call reaches into the last span; when the call is drained, its      *)
(* units are the spans of the unseen window except the last, in order      *)
(* (each less one trailing "\n"), and printed_idx has advanced by the      *)
(* start offset of the last span, or not at all when there is no span.     *)
C9_SentencePartition ==
    (mode = "message" /\ message_regex = NoRegex /\ calls >= 1
        /\ token # END_OF_INPUT /\ cpc \in {"sent_yield", "await"}) =>
        LET spans == Segment(Window)
            n == Len(spans)
            units == CallUnits
        IN  /\ \A k \in 1..Len(units) :
                /\ k < n
                /\ units[k].lo = idx0 + spans[k].start
                /\ units[k].hi <= idx0 + spans[n].start
                /\ \/ units[k].text = spans[k].sent
                   \/ units[k].text \o <<"\n">> = spans[k].sent
            /\ cpc = "await" =>
                /\ Len(units) = IF n = 0 THEN 0 ELSE n - 1
                /\ printed_idx = idx0 + (IF n = 0 THEN 0 ELSE spans[n].start)

\* a drained call that emitted a span and held back a last span
C9_Witness ==
    /\ CallDrained
    /\ message_regex = NoRegex
    /\ Len(segments) >= 2
    /\ Len(CallUnits) = Len(segments) - 1
    /\ printed_idx > idx0
    /\ printed_idx < Len(full_response)

-----------------------------------------------------------------------------
(* C10, as claimed: in the sentence example the first call emits nothing,  *)
(* "The cat sat." is emitted once the second token is absorbed and         *)
(* "The dog ran." by the end-of-input flush.                               *)
C10_SentenceExample_Claimed ==
    script = "sentence" =>
        /\ calls <= 1 => out = <<>>
        /\ EosDrained => out = <<TheCatSat, TheDogRan>>

(* C10, amended: in the sentence example the call for the first token      *)
(* emits "The cat sat. " (the span with the space that follows it) and     *)
(* holds back "The dog "; the call for the second token emits nothing; the *)
(* end-of-input flush emits "The dog ran."; nothing else is emitted.       *)
C10_SentenceExample ==
    script = "sentence" =>
        /\ calls = 0 => out = <<>>
        /\ calls \in {1, 2} => out = <<TheCatSat \o <<" ">> >>
        /\ (calls = 2 /\ cpc = "await") => printed_idx = 13
        /\ calls = 3 => out = <<TheCatSat \o <<" ">>, TheDogRan>>

\* the sentence example has run to its end
C10_Witness ==
    /\ script = "sentence"
    /\ EosDrained
    /\ calls = 3
    /\ src_pc = "closed"

-----------------------------------------------------------------------------
(* C11: a next() call with END_OF_INPUT on a splitter whose printed_idx    *)
(* already equals len(full_response), a second end-of-input call for       *)
(* instance, yields no unit and leaves printed_idx and full_response as    *)
(* they were.                                                              *)
C11_IdempotentEndOfStream ==
    [][(/\ cpc = "got"
        /\ token = END_OF_INPUT
        /\ printed_idx = Len(full_response))
        => (/\ cpc' = "await"
            /\ out' = out
            /\ emitted' = emitted
            /\ printed_idx' = printed_idx
            /\ full_response' = full_response)]_vars

\* a second end-of-input call has returned, right after the call whose
\* end-of-input unit was pulled and drained
C11_Witness ==
    /\ mode = "splitter"
    /\ cpc = "await"
    /\ token = END_OF_INPUT
    /\ calls >= 2
    /\ emitted # <<>>
    /\ emitted[Len(emitted)].kind = "eos"
    /\ emitted[Len(emitted)].call = calls - 1
    /\ emitted[Len(emitted)].hi = Len(full_response)
    /\ printed_idx = Len(full_response)

-----------------------------------------------------------------------------
(* C12: when the pattern matches the empty string at the start of the      *)
(* unseen window, RegexSplitter.partition never ends: resumed after the    *)
(* unit of such a match it leaves printed_idx and the window as they were, *)
(* emits the same unit once more and is suspended at the same zero-length  *)
(* match again.  Nothing at construction or at match time prevents it.     *)

\* partition is suspended at the yield of a match of length zero
ZeroLengthMatch ==
    /\ mode = "message"
    /\ message_regex # NoRegex
    /\ cpc = "regex_yield"
    /\ Match(message_regex, Suffix(full_response, printed_idx)).end = 0

C12_ZeroLengthMatchLoops ==
    [][ZeroLengthMatch
        => (/\ ZeroLengthMatch'
            /\ printed_idx' = printed_idx
            /\ full_response' = full_response
            /\ out' = Append(out, out[Len(out)])
            /\ Len(emitted') = Len(emitted) + 1
            /\ emitted'[Len(emitted')] = emitted[Len(emitted)])]_vars

\* the same empty unit has been emitted three times in one next() call
\* and the partition is still at the zero-length match
C12_Witness ==
    /\ ZeroLengthMatch
    /\ Len(CallUnits) >= 3
    /\ \A i \in 1..Len(CallUnits) : CallUnits[i] = CallUnits[1]
    /\ CallUnits[1].text = <<>>
    /\ printed_idx = idx0

-----------------------------------------------------------------------------
(* C13: when request_by_token fails to decode a transport event before the *)
(* end of the stream, the caller of message mode or of batched mode gets   *)
(* the failure, the stream ends there and nothing is flushed: the step     *)
(* emits nothing, the splitter's unseen tail stays unemitted, the          *)
(* batcher's buffer stays unreleased, and no step follows.                 *)

\* no emitted unit reaches into the splitter's unseen tail
TailUnemitted ==
    /\ \A k \in printed_idx .. (Len(full_response) - 1) : ~ Covered(k)
    /\ \A i \in 1..Len(emitted) : emitted[i].kind # "eos"

\* the batches released are the text that arrived before the buffer's
BufferUnreleased == Flatten(out) \o tokens = streamed

C13_NoFlushOnFailure ==
    /\ [](src_pc = "failed"
            => /\ cpc = "failed"
               /\ mode = "message" => TailUnemitted
               /\ mode = "grouped" => BufferUnreleased)
    /\ [][src_pc' = "failed"
            => /\ src_pc = "events"
               /\ out' = out
               /\ full_response' = full_response
               /\ printed_idx' = printed_idx
               /\ tokens' = tokens]_vars
    /\ [][src_pc # "failed"]_vars

\* message mode failed with a sentence emitted and text that is not blank
\* left in the unseen tail
C13_Witness ==
    /\ mode = "message"
    /\ src_pc = "failed"
    /\ cpc = "failed"
    /\ out # <<>>
    /\ Strip(Suffix(full_response, printed_idx)) # <<>>

-----------------------------------------------------------------------------
(* C14: two calls on one client, one after the other or interleaved token  *)
(* by token, do not affect each other.  Each call begins with an empty     *)
(* full_response, printed_idx 0 and an empty buffer; a message-mode call   *)
(* uses RegexSplitter when message_regex is configured and                 *)
(* SentenceSplitter otherwise; and the units a call has emitted are the    *)
(* ones its own token stream gives when it runs alone, whatever the other  *)
(* call has done meanwhile.                                                *)

\* what a call emits when it is the only one (C5, C8 and C10 for the
\* examples; "a\nb" is split at the line break by both strategies and is
\* one final batch in batched mode)
OwnOutput(c) ==
    CASE c.mode = "message" /\ c.script = "delimiter" -> <<HelloWorld, Bye>>
      [] c.mode = "message" /\ c.script = "sentence"
            -> <<TheCatSat \o <<" ">>, TheDogRan>>
      [] c.mode = "message" /\ c.script = "short" -> << <<"a">>, <<"b">> >>
      [] c.mode = "grouped" /\ c.script = "batching"
            -> << <<"a", "b", "c", "d", "e">> >>
      [] c.mode = "grouped" /\ c.script = "short" -> << <<"a", "\n", "b">> >>

Isolated(c) ==
    /\ NotBegun(c) => /\ c.full_response = <<>>
                      /\ c.printed_idx = 0
                      /\ c.tokens = <<>>
                      /\ c.out = <<>>
    /\ IsPrefix(c.out, OwnOutput(c))
    /\ c.cpc = "done" => c.out = OwnOutput(c)
    /\ c.mode = "message"
        => /\ c.full_response
                \o (IF c.cpc = "got" THEN c.token ELSE <<>>) = c.streamed
           /\ \A i \in 1..Len(c.emitted) :
                c.emitted[i].kind \in
                    (IF message_regex # NoRegex THEN {"regex", "eos"}
                                                ELSE {"sentence", "eos"})

C14_InstanceIsolation == Isolated(Locals) /\ Isolated(other)

\* two message-mode calls on a client with a delimiter pattern are both
\* under way, each with its first unit emitted
C14_Witness ==
    /\ mode = "message"
    /\ other.mode = "message"
    /\ script = "delimiter"
    /\ other.script = "short"
    /\ out = <<HelloWorld>>
    /\ other.out = << <<"a">> >>
    /\ cpc # "done"
    /\ other.cpc # "done"

-----------------------------------------------------------------------------
(* C15: request_as_string consumes one stream of request_by_token to its   *)
(* end and returns one string, the text deltas of the stream concatenated  *)
(* in the order they arrived (the marker adds nothing); until the stream   *)
(* has ended the caller has no result, not a partial one either.           *)
C15_AggregateMode ==
    /\ cpc # "returned" => out = <<>>
    /\ cpc = "returned" => /\ out = <<streamed>>
                           /\ src_pc \in {"closed", "exhausted"}
    /\ Flatten(collected) \o (IF cpc = "got" THEN token ELSE <<>>) = streamed

\* the string of three text deltas, the last with a finish_reason, has
\* been returned
C15_Witness ==
    /\ mode = "string"
    /\ cpc = "returned"
    /\ src_pc = "closed"
    /\ Len(collected) = 4
    /\ collected[4] = END_OF_INPUT
    /\ Len(out[1]) >= 3
    /\ out[1] # <<"a", "a", "a">>

-----------------------------------------------------------------------------
(* C16: at every yield of a splitter, the end-of-input unit's included,    *)
(* printed_idx has already moved past the span of the unit being yielded;  *)
(* so a caller that stops pulling in the middle of one next() call and     *)
(* calls next() again later is never given a span a second time.           *)
AtYield == cpc \in {"eos_yield", "regex_yield", "sent_yield"}

C16_CursorAheadOfEmission ==
    /\ AtYield => printed_idx >= emitted[Len(emitted)].hi
    /\ \A i \in 1..Len(emitted) : \A j \in (i + 1)..Len(emitted) :
            \A k \in Offsets : ~ (Covers(i, k) /\ Covers(j, k))

-----------------------------------------------------------------------------
(* C17: in message mode the caller gets units in the order of the tokens   *)
(* that produced them; request_by_token is resumed for the next token      *)
(* only when every unit of the token before has been delivered; and once   *)
(* next() has been given END_OF_INPUT and drained, the one step left is    *)
(* the return of request_by_token: next() is not called again.             *)

\* the generator of the last next() call has nothing more to yield
Drained ==
    \/ calls = 0
    \/ /\ token = END_OF_INPUT
       /\ printed_idx = Len(full_response)
    \/ /\ token # END_OF_INPUT
       /\ message_regex # NoRegex
       /\ ~ Match(message_regex, Suffix(full_response, printed_idx)).ok
    \/ /\ token # END_OF_INPUT
       /\ message_regex = NoRegex
       /\ Len(CallUnits) = Max({Len(segments) - 1, 0})

C17_PullBasedFifo ==
    /\ [](/\ Len(out) = Len(emitted)
           /\ \A i \in 1..Len(emitted) :
                /\ out[i] = emitted[i].text
                /\ \A j \in i..Len(emitted) :
                     emitted[i].call <= emitted[j].call)
    /\ [][(events_seen' # events_seen \/ src_pc' # src_pc)
            => (cpc = "await" /\ Drained /\ out' = out)]_vars
    /\ [][(calls' # calls /\ token = END_OF_INPUT) => src_pc = "end"]_vars
    /\ [][(src_pc = "end" /\ cpc = "await")
            => (src_pc' = "closed" /\ cpc' = "done" /\ calls' = calls)]_vars
    /\ [][src_pc # "closed"]_vars

\* a token gave two units, a later token a third, and the stream has
\* ended with the return of request_by_token
C17_Witness ==
    /\ mode = "message"
    /\ src_pc = "closed"
    /\ Len(emitted) = 3
    /\ emitted[1].call = emitted[2].call
    /\ emitted[2].call < emitted[3].call

-----------------------------------------------------------------------------
(* C18: the release rule of request_as_grouped_tokens, step by step.       *)

\* a text token arrives (the clock then reads clock'): it is appended
\* first, and the whole buffer is released iff clock' >= last_response +
\* interval; otherwise nothing is released
OnTextToken ==
    (mode = "grouped" /\ cpc = "got" /\ token # END_OF_INPUT)
        => /\ tokens' = tokens \o token
           /\ last_response' = last_response
           /\ IF clock' >= last_response + interval
              THEN out' = Append(out, tokens') /\ cpc' = "batch_yield"
              ELSE out' = out /\ cpc' = "await"

\* the end of the stream arrives: the buffer is released as the final
\* batch iff it is not empty
OnEndOfInput ==
    (mode = "grouped" /\ cpc = "got" /\ token = END_OF_INPUT)
        => IF tokens # <<>>
           THEN out' = Append(out, tokens) /\ cpc' = "final_yield"
           ELSE out' = out /\ cpc' = "done"

\* a batch is released only by the arrival of an item, and none after
\* the end of the stream
OnlyOnArrival ==
    /\ out' # out => cpc = "got"
    /\ cpc \in {"final_yield", "done"} => out' = out /\ cpc' = "done"

\* after an interval batch: as claimed, the timestamp becomes the reading
\* that was compared with the deadline
AfterBatch_Claimed ==
    cpc = "batch_yield"
        => tokens' = <<>> /\ out' = out /\ last_response' = clock

\* after an interval batch: the timestamp becomes a new reading of the
\* clock, taken when the caller asks for the next batch
AfterBatch ==
    cpc = "batch_yield"
        => /\ tokens' = <<>>
           /\ out' = out
           /\ last_response' = clock'
           /\ clock' >= clock

(* C18, as claimed: the timestamp starts at the beginning of the call; on  *)
(* a text token the token is appended, then the buffer is released,        *)
(* cleared and the timestamp set to now iff now >= last release +          *)
(* interval, where now is the time the token arrived; batches are released *)
(* only at arrivals; at end of stream the buffer is released iff not       *)
(* empty, and nothing after.                                               *)
C18_BatcherReleaseRule_Claimed ==
    /\ [](NotBegun(Locals) => last_response = clock)
    /\ [][OnTextToken]_vars
    /\ [][AfterBatch_Claimed]_vars
    /\ [][OnEndOfInput]_vars
    /\ [][OnlyOnArrival]_vars

(* C18, amended: the same, except that after a released batch the          *)
(* timestamp is set to the clock as read when the caller resumes the       *)
(* generator, which is at or after the time the token arrived.             *)
C18_BatcherReleaseRule ==
    /\ [](NotBegun(Locals) => last_response = clock)
    /\ [][OnTextToken]_vars
    /\ [][AfterBatch]_vars
    /\ [][OnEndOfInput]_vars
    /\ [][OnlyOnArrival]_vars

\* a batch was released, the caller resumed at time 3, the token that
\* arrived at time 4 stayed in the buffer (interval 2) and went out as the
\* final batch
C18_Witness ==
    /\ GroupedEnded
    /\ interval = 2
    /\ Len(out) = 2
    /\ last_response = 3
    /\ clock = 4

-----------------------------------------------------------------------------
(* C19: a next() call given END_OF_INPUT does not run the partition        *)
(* strategy (no pattern match, no segmentation: full_response and the      *)
(* strategy's state stay as they were and no unit of the strategy is       *)
(* emitted); it emits one unit, the whole unseen window, iff the window    *)
(* holds a character that is not whitespace, and no unit otherwise; when   *)
(* the call is drained printed_idx = len(full_response).                   *)

\* the step that begins the end-of-input call
EndOfInputCall ==
    (mode = "message" /\ cpc = "got" /\ token = END_OF_INPUT)
        => LET window == Suffix(full_response, printed_idx)
           IN  /\ full_response' = full_response
               /\ segments' = segments
               /\ match_end' = match_end
               /\ IF \E k \in 1..Len(window) : window[k] \notin Whitespace
                  THEN /\ out' = Append(out, window)
                       /\ emitted' = Append(emitted,
                              Unit(window, printed_idx, Len(full_response),
                                   "eos", calls'))
                       /\ cpc' = "eos_yield"
                  ELSE /\ out' = out
                       /\ emitted' = emitted
                       /\ cpc' = "await"
                       /\ printed_idx' = Len(full_response)

\* the step that drains it after its unit
EndOfInputDrain ==
    cpc = "eos_yield"
        => /\ out' = out
           /\ emitted' = emitted
           /\ full_response' = full_response
           /\ printed_idx' = Len(full_response)
           /\ cpc' = "await"

-----------------------------------------------------------------------------
(* C20: when every match of the pattern consumes at least one character,   *)
(* RegexSplitter.partition ends after at most len(unseen) iterations for   *)
(* any unseen window: every iteration moves printed_idx forward by at      *)
(* least one and never past the end of full_response, so the units of one  *)
(* call are at most as many as the characters the cursor has passed, the   *)
(* one being yielded included, and at most len(unseen).                    *)

\* every match of the pattern skip* (body*) delim has the delimiter in it
Consuming(regex) == regex # NoRegex /\ regex.delim # <<>>

C20_DelimiterTermination ==
    /\ []((mode = "message" /\ Consuming(message_regex))
            => /\ Len(CallUnits) <= Len(Window)
               /\ cpc = "regex_yield"
                    => /\ match_end >= 1
                       /\ printed_idx + match_end <= Len(full_response)
                       /\ Len(CallUnits) <= printed_idx - idx0 + 1
                       /\ Len(out) < MaxUnits
               /\ (cpc = "await" /\ calls >= 1 /\ token # END_OF_INPUT)
                    => /\ Len(CallUnits) <= printed_idx - idx0
                       /\ ~ Match(message_regex,
                                  Suffix(full_response, printed_idx)).ok)
    /\ [][(cpc = "regex_yield" /\ Consuming(message_regex))
            => /\ printed_idx' > printed_idx
               /\ printed_idx' <= Len(full_response)
               /\ full_response' = full_response]_vars

\* a window of two characters has given two units, as many as it can
C20_Witness ==
    /\ mode = "message"
    /\ message_regex = LineRegex
    /\ cpc = "await"
    /\ token # END_OF_INPUT
    /\ idx0 > 0
    /\ Len(Window) = 2
    /\ Len(CallUnits) = 2

-----------------------------------------------------------------------------
(* C21: whatever items request_by_token yields and whenever they arrive,   *)
(* every batch request_as_grouped_tokens releases, by the interval or as   *)
(* the final batch, is a string that is not empty: an interval batch holds *)
(* at least the token that has just arrived, and the final batch is        *)
(* released only from a buffer that is not empty.                          *)
C21_NoEmptyBatch ==
    mode = "grouped" =>
        /\ \A i \in 1..Len(out) : out[i] # <<>>
        /\ cpc = "batch_yield" =>
               /\ token # END_OF_INPUT
               /\ Len(out[Len(out)]) >= Len(token)
        /\ cpc = "final_yield" => out[Len(out)] = tokens

\* the end of the stream found the buffer empty, right after an interval
\* batch: the call ended with that batch alone
C21_Witness ==
    /\ GroupedEnded
    /\ script = "free"
    /\ tokens = <<>>
    /\ Len(out) = 1
    /\ streamed # <<>>

=============================================================================
